---- MODULE Spec2Model ----
(***************************************************************************)
(* shellscan: a SYN scanner for port 22.  main (src/main.go) expands the   *)
(* command-line arguments, starts one goroutine per IPv4 target and spins  *)
(* on a shared counter; every goroutine creates an SSHScanner              *)
(* (src/scanner.go), resolves the next hop by ARP, sends one SYN, waits    *)
(* for a SYN+ACK, reads the banner and prints one line.                    *)
(***************************************************************************)
EXTENDS Integers, Sequences, FiniteSets, TLC

(* ---------------------------------------------------------------- bounds *)

\* Longest argument list drawn for the whole-program specification.
MaxArgs == 2

\* Most entries the expanded argument list may have in the whole-program
\* specification (one goroutine per valid entry).
MaxUnits == 2

\* Most entries the expanded argument list may have in any specification.
MaxSlots == 6

\* time.Since(start) is counted in whole seconds and saturates here.
MaxElapsed == 4

\* The goroutines of the specification of the counter are at most this many.
MaxCount == 4

(* ------------------------------------------------------ program constants *)

\* time.Second * 3, the deadline of DestMACAddress and of ScanAddress.
Deadline == 3

\* tcp.SrcPort of the SYN, and the port a reply must be addressed to.
ProbeSrcPort == 63323

\* tcp.DstPort of the SYN.
ProbeDstPort == 22

(* ------------------------------------------------------------ addresses *)

\* An IPv4 address is its four bytes; a nil net.IP is the empty tuple.
NilIP == << >>

Pow2(n) == 2 ^ n

\* Byte j of net.CIDRMask(ones, 32), as the number of low bits it clears.
MaskClear(ones, j) ==
    LET m == IF ones - 8 * (j - 1) < 0 THEN 0
             ELSE IF ones - 8 * (j - 1) > 8 THEN 8 ELSE ones - 8 * (j - 1)
    IN  8 - m

\* ip.Mask(mask): every byte ANDed with the mask's byte.
Mask(ip, ones) ==
    LET and(j) == ip[j] - (ip[j] % Pow2(MaskClear(ones, j)))
    IN  <<and(1), and(2), and(3), and(4)>>

\* ipnet.Contains(ip) for the network of ParseCIDR(base/ones).
Contains(base, ones, ip) == Mask(ip, ones) = Mask(base, ones)

RECURSIVE expandFrom(_, _)
expandFrom(ip, j) ==
    IF j < 1 THEN ip
    ELSE LET v   == (ip[j] + 1) % 256
             ip2 == [ip EXCEPT ![j] = v]
         IN  IF v > 0 THEN ip2 ELSE expandFrom(ip2, j - 1)

\* expand: increment the address in place, carrying from the last byte.
expand(ip) == expandFrom(ip, 4)

\* ip.String() of a four-byte address.
IPString(ip) ==
    ToString(ip[1]) \o "." \o ToString(ip[2]) \o "." \o
    ToString(ip[3]) \o "." \o ToString(ip[4])

(* ------------------------------------------------- command-line arguments *)

\* A command-line string, by what the parsers make of it:
\*   "ip"      dotted IPv4 text of `ip`
\*   "cidr"    IPv4 CIDR text ip/ones
\*   "ip6"     an IPv6 literal (ParseIP succeeds, To4 is nil)
\*   "junk"    text without "/" that ParseIP rejects
\*   "badcidr" text with "/" that ParseCIDR rejects
StrIP(ip)         == [kind |-> "ip", ip |-> ip, ones |-> 32]
StrCIDR(ip, ones) == [kind |-> "cidr", ip |-> ip, ones |-> ones]
StrIP6            == [kind |-> "ip6", ip |-> <<0, 0, 0, 1>>, ones |-> 128]
StrJunk           == [kind |-> "junk", ip |-> <<0, 0, 0, 0>>, ones |-> 0]
StrBadCIDR        == [kind |-> "badcidr", ip |-> <<0, 0, 0, 0>>, ones |-> 0]

\* strings.ContainsAny(arg, "/")
ContainsSlash(arg) == arg.kind \in {"cidr", "badcidr"}

\* net.ParseCIDR(arg) returns an error.
ParseCIDRFails(arg) == arg.kind # "cidr"

\* net.ParseIP(arg) followed by To4(): the four bytes, or nil.
ParseIP(arg) == IF arg.kind \in {"ip", "ip6"} THEN arg.ip ELSE NilIP
To4(arg)     == IF arg.kind = "ip" THEN arg.ip ELSE NilIP

RECURSIVE cidrLoop(_, _, _)
\* for ip := ip.Mask(ipnet.Mask); ipnet.Contains(ip); expand(ip) { append }
cidrLoop(base, ones, ip) ==
    IF Contains(base, ones, ip)
    THEN <<StrIP(ip)>> \o cidrLoop(base, ones, expand(ip))
    ELSE << >>

\* remove(slice, i) with its result dropped: append(slice[:i], slice[i+1:]...)
\* shifts the tail left inside the backing array and the caller keeps its
\* slice header, so the length is unchanged and the last element repeats.
\* `i` is the Go (0-based) index.
remove(slice, i) ==
    [j \in 1..Len(slice) |->
        IF j <= i THEN slice[j]
        ELSE IF j < Len(slice) THEN slice[j + 1]
        ELSE slice[Len(slice)]]

\* One iteration of the first loop of main on argument `arg`.
expandOne(args, i, arg) == remove(args \o cidrLoop(arg.ip, arg.ones, Mask(arg.ip, arg.ones)), i)

RECURSIVE expandAll(_, _, _, _)
\* The whole first loop of main: `orig` is the slice the range statement
\* iterates, `args` the variable that is appended to.
expandAll(orig, k, args, i) ==
    IF k > Len(orig) THEN args
    ELSE IF ContainsSlash(orig[k]) /\ ~ParseCIDRFails(orig[k])
         THEN expandAll(orig, k + 1, expandOne(args, i, orig[k]), i + 1)
         ELSE IF ContainsSlash(orig[k]) THEN args
         ELSE expandAll(orig, k + 1, args, i)

(* ------------------------------------------------------ frames and hosts *)

\* What router.Route and the interface supply for every target.
LocalIP   == <<10, 0, 0, 100>>
GatewayIP == <<10, 0, 0, 254>>
OtherIP   == <<10, 0, 0, 77>>

\* A captured frame as gopacket decodes it: its network layer (if any) with
\* the addresses of its flow, its TCP layer (if any), its ARP layer (if any).
NoFrame ==
    [net |-> "none", src |-> NilIP, dst |-> NilIP, tcp |-> FALSE, sport |-> 0,
     dport |-> 0, syn |-> FALSE, ack |-> FALSE, arp |-> FALSE, spa |-> NilIP,
     sha |-> "none"]

TCPFrame(src, dst, sport, dport, syn, ack) ==
    [NoFrame EXCEPT !.net = "ip4", !.src = src, !.dst = dst, !.tcp = TRUE,
                    !.sport = sport, !.dport = dport, !.syn = syn, !.ack = ack]

\* An IPv4 frame that carries no TCP layer (UDP, ICMP, truncated TCP).
IPFrame(src, dst) == [NoFrame EXCEPT !.net = "ip4", !.src = src, !.dst = dst]

ARPFrame(spa, sha) == [NoFrame EXCEPT !.arp = TRUE, !.spa = spa, !.sha = sha]

\* The hardware address a host answers ARP with.
HwOf(ip) ==
    IF ip = GatewayIP THEN "hw-gateway"
    ELSE IF ip = OtherIP THEN "hw-other" ELSE "hw-target"

\* The frames a unit scanning `dst` from `src` may capture on a busy wire: ARP
\* traffic of the target, the gateway and a bystander; the SYN+ACK in every
\* combination of port and flags; the same reply on the reversed flow, from a
\* bystander and from another service port; IPv4 traffic without a TCP layer.
BusyFrames(dst, src) ==
    { ARPFrame(a, HwOf(a)) : a \in {dst, GatewayIP, OtherIP} }
    \cup { TCPFrame(dst, src, ProbeDstPort, p, s, a) :
             p \in {ProbeSrcPort, ProbeDstPort}, s \in BOOLEAN, a \in BOOLEAN }
    \cup { TCPFrame(src, dst, ProbeDstPort, ProbeSrcPort, TRUE, TRUE),
           TCPFrame(OtherIP, src, ProbeDstPort, ProbeSrcPort, TRUE, TRUE),
           TCPFrame(dst, src, 2222, ProbeSrcPort, TRUE, TRUE),
           IPFrame(dst, src) }

\* On a quiet wire: the ARP replies of the target and the gateway, the
\* target's SYN+ACK and its RST.
QuietFrames(dst, src) ==
    { ARPFrame(dst, HwOf(dst)), ARPFrame(GatewayIP, HwOf(GatewayIP)),
      TCPFrame(dst, src, ProbeDstPort, ProbeSrcPort, TRUE, TRUE),
      TCPFrame(dst, src, ProbeDstPort, ProbeSrcPort, FALSE, TRUE) }

\* On an idle wire nothing arrives.
Frames(w, dst, src) ==
    IF w = "busy" THEN BusyFrames(dst, src)
    ELSE IF w = "quiet" THEN QuietFrames(dst, src) ELSE {}

\* gopacket.NewFlow(layers.EndpointIPv4, a, b); Flow values compare with ==.
NewFlow(a, b) == <<"ip4", a, b>>

\* packet.NetworkLayer().NetworkFlow()
NetworkFlow(f) == <<f.net, f.src, f.dst>>

(* ------------------------------------------------------------ the banner *)

\* What connbuf.ReadString('\n') returns: the bytes read, in pieces with the
\* line terminator a piece of its own, and whether it returned an error.
BannerReads ==
    { [str |-> <<"SSH-2.0-OpenSSH", "\n">>, err |-> FALSE],
      [str |-> <<"\n">>, err |-> FALSE],
      [str |-> << >>, err |-> TRUE],
      [str |-> <<"SSH-2.0">>, err |-> TRUE] }

RECURSIVE TrimLeft(_)
TrimLeft(s) == IF s # << >> /\ Head(s) = "\n" THEN TrimLeft(Tail(s)) ELSE s

RECURSIVE TrimRight(_)
TrimRight(s) ==
    IF s # << >> /\ s[Len(s)] = "\n" THEN TrimRight(SubSeq(s, 1, Len(s) - 1)) ELSE s

\* strings.Trim(str, "\n")
Trim(s) == TrimRight(TrimLeft(s))

RECURSIVE Join(_)
Join(s) == IF s = << >> THEN "" ELSE Head(s) \o Join(Tail(s))

NoBanner == "Unable to get banner"

\* No line read yet.
NoLine == [read |-> [str |-> << >>, err |-> FALSE], text |-> ""]

\* BannerText with the bytes read before an error kept as the banner.
BannerTextKeepsPartial(rd) ==
    IF Len(rd.str) > 0 THEN Join(Trim(rd.str))
    ELSE IF rd.err THEN NoBanner ELSE ""

\* Lines 176-185: the text printed for what ReadString returned.
BannerText(rd) ==
    IF rd.err THEN NoBanner
    ELSE IF Len(rd.str) > 0 THEN Join(Trim(rd.str)) ELSE ""

\* The format string of line 187, split at its verbs.
ReportFormat == <<"%s", "shScanner:", "%d", ",", "%s", "shScanner\n">>

RECURSIVE Sprintf(_, _)
\* fmt.Sprintf over a format split at its verbs; `vals` are the operands,
\* already rendered.
Sprintf(format, vals) ==
    IF format = << >> THEN ""
    ELSE IF Head(format) \in {"%s", "%d"}
         THEN Head(vals) \o Sprintf(Tail(format), Tail(vals))
         ELSE Head(format) \o Sprintf(Tail(format), vals)

\* Line 187.
ReportLine(ip, sport, text) ==
    Sprintf(ReportFormat, <<IPString(ip), ToString(sport), text>>)

(* ------------------------------------------------------------- the state *)

VARIABLES
    orig,     \* the slice the first range statement of main iterates (flag.Args())
    args,     \* the variable args of main
    k,        \* position of the running range loop of main (1-based)
    i,        \* the variable i of main
    mainpc,   \* where main is: "expand", "spawn", "wait", "exit", "panic"
    router,   \* the routing table routing.New() read: how each target is routed
    wire,     \* the traffic on the capture interface: "busy", "quiet" or "idle"
    wait,     \* the shared counter wait of main
    pc,       \* per goroutine: its position
    scanner,  \* per goroutine: its SSHScanner (DestIP is the captured ip)
    elapsed,  \* per goroutine: time.Since(start), in seconds
    sent,     \* per goroutine: the variable sent of ScanAddress
    hwaddr,   \* per goroutine: the variable hwaddr of ScanAddress
    data,     \* per goroutine: the frame ReadPacketData returned last
    rerr,     \* per goroutine: the error ReadPacketData returned last
    tmp,      \* per goroutine: the value of wait loaded by its wait--
    closes,   \* per goroutine: how often PCAPHandle.Close was called
    outcome,  \* per goroutine: how its scan went
    written,  \* per goroutine: what it handed to SendPacket
    banner,   \* per goroutine: what ReadString returned and the text made of it
    report,   \* the lines line 187 printed, each with the goroutine that printed
    diag      \* the diagnostics printed, as a set

vars == <<orig, args, k, i, mainpc, router, wire, wait, pc, scanner, elapsed, sent, hwaddr,
          data, rerr, tmp, closes, outcome, written, banner,
          report, diag>>

mainVars == <<orig, args, k, i, mainpc, router, wire>>

unitVars ==
    <<pc, scanner, elapsed, sent, hwaddr, data, rerr, tmp, closes, outcome, written, banner>>

\* The goroutines that exist: one slot per entry of the expanded args.
Units == DOMAIN pc

Slots == 1..MaxSlots

\* A scanner before create ran: only the captured ip is known.
NoScanner(ip) ==
    [DestIP |-> ip, Gateway |-> NilIP, SourceIP |-> NilIP, PCAPHandle |-> "nil"]

\* Nothing handed to SendPacket yet: no ARP request, no SYN.
NoneWritten == [DstProtAddress |-> NilIP, syn |-> FALSE]

\* A goroutine that panicked, or main returning, ends the process.
Running == mainpc \notin {"exit", "panic"} /\ \A u \in Units : pc[u] # "panic"

(* ------------------------------------------------------------------ main *)

\* The arguments the specifications draw from.
Target1 == <<10, 0, 0, 9>>
Target2 == <<10, 0, 0, 3>>

ArgChoices ==
    { StrIP(Target1), StrIP(Target2), StrIP6, StrJunk, StrBadCIDR,
      StrCIDR(Target1, 32), StrCIDR(<<10, 0, 0, 0>>, 30), StrCIDR(<<10, 0, 0, 9>>, 31) }

ArgLists(n) == UNION { [1..m -> ArgChoices] : m \in 0..n }

\* router.Route: no route, a route on the local subnet (nil gateway), or a
\* route through the gateway.
Routes == {"no-route", "direct", "via-gateway"}

\* The addresses a routing table is drawn for.
Hosts == {Target1, Target2} \cup {<<10, 0, 0, b>> : b \in {0, 1, 2, 8}}

InitMain(lists, tables, wires) ==
    /\ orig \in lists
    /\ router \in tables
    /\ wire \in wires
    /\ args = orig
    /\ k = 1
    /\ i = 0
    /\ mainpc = "expand"
    /\ wait = 0
    /\ pc = << >>
    /\ scanner = << >>
    /\ elapsed = << >>
    /\ sent = << >>
    /\ hwaddr = << >>
    /\ data = << >>
    /\ rerr = << >>
    /\ tmp = << >>
    /\ closes = << >>
    /\ outcome = << >>
    /\ written = << >>
    /\ banner = << >>
    /\ report = << >>
    /\ diag = {}

\* main.go 85-100: one iteration of the first loop.  flag.Args() has no spare
\* capacity for the short lists drawn here, so the first append moves args to
\* a new backing array: the range statement keeps reading `orig`, and remove
\* works on args alone.
ExpandArg ==
    /\ mainpc = "expand"
    /\ k <= Len(orig)
    /\ LET arg == orig[k] IN
       IF ~ContainsSlash(arg)
       THEN /\ k' = k + 1
            /\ UNCHANGED <<args, i, mainpc, diag>>
       ELSE IF ParseCIDRFails(arg)
            \* line 90 prints the error, line 93 dereferences the nil ipnet
            THEN /\ diag' = diag \cup {<<"ParseCIDR", NilIP>>}
                 /\ mainpc' = "panic"
                 /\ UNCHANGED <<args, i, k>>
            ELSE /\ args' = expandOne(args, i, arg)
                 /\ i' = i + 1
                 /\ k' = k + 1
                 /\ UNCHANGED <<mainpc, diag>>
    /\ UNCHANGED <<orig, router, wire, wait, report>>
    /\ UNCHANGED unitVars

\* main.go 102-106: the first loop is over; wait := len(args) and the second
\* loop starts.
StartSpawn ==
    /\ mainpc = "expand"
    /\ k > Len(orig)
    /\ mainpc' = "spawn"
    /\ k' = 1
    /\ wait' = Len(args)
    /\ pc' = [u \in 1..Len(args) |-> "none"]
    /\ scanner' = [u \in 1..Len(args) |-> NoScanner(NilIP)]
    /\ elapsed' = [u \in 1..Len(args) |-> 0]
    /\ sent' = [u \in 1..Len(args) |-> FALSE]
    /\ hwaddr' = [u \in 1..Len(args) |-> "none"]
    /\ data' = [u \in 1..Len(args) |-> NoFrame]
    /\ rerr' = [u \in 1..Len(args) |-> "none"]
    /\ tmp' = [u \in 1..Len(args) |-> 0]
    /\ closes' = [u \in 1..Len(args) |-> 0]
    /\ outcome' = [u \in 1..Len(args) |-> "none"]
    /\ written' = [u \in 1..Len(args) |-> NoneWritten]
    /\ banner' = [u \in 1..Len(args) |-> NoLine]
    /\ UNCHANGED <<orig, args, i, router, wire, report, diag>>

\* main.go 106-140: one iteration of the second loop.
SpawnArg ==
    /\ mainpc = "spawn"
    /\ k <= Len(args)
    /\ Running
    /\ LET arg == args[k] IN
       IF ParseIP(arg) = NilIP
       THEN /\ diag' = diag \cup {<<"Invalid IP entered", NilIP>>}
            /\ UNCHANGED <<pc, scanner>>
       ELSE IF To4(arg) = NilIP
            THEN /\ diag' = diag \cup {<<"Non-IPv4 target", NilIP>>}
                 /\ UNCHANGED <<pc, scanner>>
            ELSE /\ pc' = [pc EXCEPT ![k] = "create"]
                 /\ scanner' = [scanner EXCEPT ![k] = NoScanner(To4(arg))]
                 /\ UNCHANGED diag
    /\ k' = k + 1
    /\ UNCHANGED <<orig, args, i, mainpc, router, wire, wait, report>>
    /\ UNCHANGED <<elapsed, sent, hwaddr, data, rerr, tmp, closes, outcome, written, banner>>

\* main.go 142-147: the second loop is over and main polls wait.
EnterWait ==
    /\ mainpc = "spawn"
    /\ k > Len(args)
    /\ Running
    /\ mainpc' = "wait"
    /\ UNCHANGED <<orig, args, k, i, router, wire, wait, report, diag>>
    /\ UNCHANGED unitVars

\* main.go 143-147: main sees wait == 0, leaves the loop and returns.
LeaveWait ==
    /\ mainpc = "wait"
    /\ Running
    /\ wait = 0
    /\ mainpc' = "exit"
    /\ UNCHANGED <<orig, args, k, i, router, wire, wait, report, diag>>
    /\ UNCHANGED unitVars

(* ------------------------------------------------------- one goroutine *)

\* Undoes the locals of ScanAddress when it returns.
Return(u, to, how) ==
    /\ pc' = [pc EXCEPT ![u] = to]
    /\ outcome' = [outcome EXCEPT ![u] = how]
    /\ elapsed' = [elapsed EXCEPT ![u] = 0]
    /\ sent' = [sent EXCEPT ![u] = FALSE]
    /\ hwaddr' = [hwaddr EXCEPT ![u] = "none"]
    /\ data' = [data EXCEPT ![u] = NoFrame]
    /\ rerr' = [rerr EXCEPT ![u] = "none"]

\* What create comes to: without a route it returns at main.go 30-34, before
\* the interface is looked at; with one, pcap.OpenLive (41-44) can still fail.
CreateResults(ip) ==
    IF router[ip] = "no-route" THEN {"no-route"} ELSE {router[ip], "open-fails"}

\* Create with the capture handle opened before the route is looked up.
CreateOpensFirst(u) ==
    /\ u \in Units
    /\ Running
    /\ pc[u] = "create"
    /\ \E r \in CreateResults(scanner[u].DestIP) :
         IF r \in {"no-route", "open-fails"}
         THEN /\ diag' = diag \cup {<<"Unable to create scanner", scanner[u].DestIP>>}
              /\ pc' = [pc EXCEPT ![u] = "dec_read"]
              /\ outcome' = [outcome EXCEPT ![u] = r]
              /\ scanner' = [scanner EXCEPT ![u].PCAPHandle = "open"]
         ELSE /\ scanner' = [scanner EXCEPT ![u] =
                    [DestIP |-> scanner[u].DestIP,
                     Gateway |-> IF r = "direct" THEN NilIP ELSE GatewayIP,
                     SourceIP |-> LocalIP,
                     PCAPHandle |-> "open"]]
              /\ pc' = [pc EXCEPT ![u] = "arp_send"]
              /\ UNCHANGED <<diag, outcome>>
    /\ UNCHANGED <<elapsed, sent, hwaddr, data, rerr, tmp, closes, wait, report>>
    /\ UNCHANGED <<written, banner>>
    /\ UNCHANGED mainVars

\* main.go 119-125 with create (15-50).
Create(u) ==
    /\ u \in Units
    /\ Running
    /\ pc[u] = "create"
    /\ \E r \in CreateResults(scanner[u].DestIP) :
         IF r \in {"no-route", "open-fails"}
         THEN /\ diag' = diag \cup {<<"Unable to create scanner", scanner[u].DestIP>>}
              /\ pc' = [pc EXCEPT ![u] = "dec_read"]
              /\ outcome' = [outcome EXCEPT ![u] = r]
              /\ UNCHANGED scanner
         ELSE /\ scanner' = [scanner EXCEPT ![u] =
                    [DestIP |-> scanner[u].DestIP,
                     Gateway |-> IF r = "direct" THEN NilIP ELSE GatewayIP,
                     SourceIP |-> LocalIP,
                     PCAPHandle |-> "open"]]
              /\ pc' = [pc EXCEPT ![u] = "arp_send"]
              /\ UNCHANGED <<diag, outcome>>
    /\ UNCHANGED <<elapsed, sent, hwaddr, data, rerr, tmp, closes, wait, report>>
    /\ UNCHANGED <<written, banner>>
    /\ UNCHANGED mainVars

\* arpDst with the gateway of the route ignored.
arpDstIgnoresGateway(sc) == sc.DestIP

\* scanner.go 37-41: the address DestMACAddress asks for.
arpDst(sc) == IF sc.Gateway # NilIP THEN sc.Gateway ELSE sc.DestIP

\* scanner.go 36-65: start the clock, build and send the ARP request; a send
\* error is returned, and ScanAddress returns it (98-102, main.go 128-131).
ArpSend(u) ==
    /\ u \in Units
    /\ Running
    /\ pc[u] = "arp_send"
    /\ \E ok \in BOOLEAN :
         IF ok
         THEN /\ pc' = [pc EXCEPT ![u] = "arp_check"]
              /\ elapsed' = [elapsed EXCEPT ![u] = 0]
              /\ UNCHANGED <<outcome, sent, hwaddr, data, rerr>>
         ELSE Return(u, "dec_read", "arp-send-error")
    /\ written' = [written EXCEPT ![u].DstProtAddress = arpDst(scanner[u])]
    /\ UNCHANGED <<scanner, tmp, closes, banner, wait, report, diag>>
    /\ UNCHANGED mainVars

\* scanner.go 69-72: has time run out?
ArpCheck(u) ==
    /\ u \in Units
    /\ Running
    /\ pc[u] = "arp_check"
    /\ IF elapsed[u] > Deadline
       THEN Return(u, "dec_read", "arp-timeout")
       ELSE /\ pc' = [pc EXCEPT ![u] = "arp_read"]
            /\ UNCHANGED <<outcome, elapsed, sent, hwaddr, data, rerr>>
    /\ UNCHANGED <<scanner, tmp, closes, wait, report, diag>>
    /\ UNCHANGED <<written, banner>>
    /\ UNCHANGED mainVars

\* main.go 41: the read time-out the capture handle is opened with.
OpenLiveTimeout == "BlockForever"

\* What a read can fail with: a handle opened with a time-out returns
\* NextErrorTimeoutExpired when it passes, one opened with BlockForever waits
\* on; the interface of a wire that carries traffic can fail.
ReadErrors(w) ==
    (IF OpenLiveTimeout = "BlockForever" THEN {} ELSE {"timeout"})
    \cup (IF w = "idle" THEN {} ELSE {"error"})

\* PCAPHandle.ReadPacketData(): a frame, a time-out, or another error; it
\* does not return while there is none of them.
ReadPacketData(u) ==
    \/ \E f \in Frames(wire, scanner[u].DestIP, scanner[u].SourceIP) :
         /\ data' = [data EXCEPT ![u] = f]
         /\ rerr' = [rerr EXCEPT ![u] = "none"]
    \/ /\ data' = [data EXCEPT ![u] = NoFrame]
       /\ rerr' \in {[rerr EXCEPT ![u] = e] : e \in ReadErrors(wire)}

\* scanner.go 74.
ArpRead(u) ==
    /\ u \in Units
    /\ Running
    /\ pc[u] = "arp_read"
    /\ ReadPacketData(u)
    /\ pc' = [pc EXCEPT ![u] = "arp_parse"]
    /\ UNCHANGED <<scanner, elapsed, sent, hwaddr, tmp, closes, outcome, wait, report, diag>>
    /\ UNCHANGED <<written, banner>>
    /\ UNCHANGED mainVars

\* IsArpReply with the reply compared to the scanned address, gateway or not.
IsArpReplyFromDest(f, sc) == f.arp /\ f.spa = sc.DestIP

\* scanner.go 84-87: the frame has an ARP layer sent by the address asked for.
IsArpReply(f, sc) == f.arp /\ f.spa = arpDst(sc)

\* ArpParse with a failed read taken for a reply: on to the probe with no
\* hardware address.
ArpParseGoesOn(u) ==
    /\ u \in Units
    /\ Running
    /\ pc[u] = "arp_parse"
    /\ IF rerr[u] = "error" \/ IsArpReply(data[u], scanner[u])
       THEN /\ hwaddr' = [hwaddr EXCEPT ![u] = data[u].sha]
            /\ pc' = [pc EXCEPT ![u] = "syn_send"]
            /\ elapsed' = [elapsed EXCEPT ![u] = 0]
            /\ data' = [data EXCEPT ![u] = NoFrame]
            /\ rerr' = [rerr EXCEPT ![u] = "none"]
            /\ UNCHANGED <<outcome, sent>>
       ELSE /\ pc' = [pc EXCEPT ![u] = "arp_check"]
            /\ data' = [data EXCEPT ![u] = NoFrame]
            /\ rerr' = [rerr EXCEPT ![u] = "none"]
            /\ UNCHANGED <<outcome, elapsed, sent, hwaddr>>
    /\ UNCHANGED <<scanner, tmp, closes, wait, report, diag>>
    /\ UNCHANGED <<written, banner>>
    /\ UNCHANGED mainVars

\* scanner.go 76-90: what DestMACAddress does with what it read.
ArpParse(u) ==
    /\ u \in Units
    /\ Running
    /\ pc[u] = "arp_parse"
    /\ IF rerr[u] = "error"
       THEN Return(u, "dec_read", "arp-read-error")
       ELSE IF rerr[u] = "none" /\ IsArpReply(data[u], scanner[u])
            THEN /\ hwaddr' = [hwaddr EXCEPT ![u] = data[u].sha]
                 /\ pc' = [pc EXCEPT ![u] = "syn_send"]
                 /\ elapsed' = [elapsed EXCEPT ![u] = 0]
                 /\ data' = [data EXCEPT ![u] = NoFrame]
                 /\ UNCHANGED <<outcome, sent, rerr>>
            ELSE /\ pc' = [pc EXCEPT ![u] = "arp_check"]
                 /\ data' = [data EXCEPT ![u] = NoFrame]
                 /\ rerr' = [rerr EXCEPT ![u] = "none"]
                 /\ UNCHANGED <<outcome, elapsed, sent, hwaddr>>
    /\ UNCHANGED <<scanner, tmp, closes, wait, report, diag>>
    /\ UNCHANGED <<written, banner>>
    /\ UNCHANGED mainVars

\* scanner.go 139-146, the top of the loop of ScanAddress (entered from 133-134
\* with sent = false): while nothing was sent, restart the clock and send.  A
\* failed send prints a diagnostic and leaves sent false.
SynSend(u) ==
    /\ u \in Units
    /\ Running
    /\ pc[u] = "syn_send"
    /\ IF sent[u]
       THEN UNCHANGED <<elapsed, sent, written>>
       ELSE /\ elapsed' = [elapsed EXCEPT ![u] = 0]
            /\ \E ok \in BOOLEAN : sent' = [sent EXCEPT ![u] = ok]
            /\ written' = [written EXCEPT ![u].syn = TRUE]
    /\ pc' = [pc EXCEPT ![u] = "syn_check"]
    /\ UNCHANGED <<scanner, hwaddr, data, rerr, tmp, closes, outcome, banner, wait, report, diag>>
    /\ UNCHANGED mainVars

\* scanner.go 139-141: the step of SynSend that calls SendPacket.
SendsSyn(u) == SynSend(u) /\ ~sent[u]

\* scanner.go 148-151: the deadline of the probe; ScanAddress returns nil.
SynCheck(u) ==
    /\ u \in Units
    /\ Running
    /\ pc[u] = "syn_check"
    /\ IF elapsed[u] > Deadline
       THEN Return(u, "close", "no-response")
       ELSE /\ pc' = [pc EXCEPT ![u] = "syn_read"]
            /\ UNCHANGED <<outcome, elapsed, sent, hwaddr, data, rerr>>
    /\ UNCHANGED <<scanner, tmp, closes, wait, report, diag>>
    /\ UNCHANGED <<written, banner>>
    /\ UNCHANGED mainVars

\* scanner.go 154.
SynRead(u) ==
    /\ u \in Units
    /\ Running
    /\ pc[u] = "syn_read"
    /\ ReadPacketData(u)
    /\ pc' = [pc EXCEPT ![u] = "syn_parse"]
    /\ UNCHANGED <<scanner, elapsed, sent, hwaddr, tmp, closes, outcome, wait, report, diag>>
    /\ UNCHANGED <<written, banner>>
    /\ UNCHANGED mainVars

\* scanner.go 132: the flow a reply must have.
netFlow(sc) == NewFlow(sc.DestIP, sc.SourceIP)

\* IsSynAck with the flow compared in either direction.
IsSynAckEitherWay(f, sc) ==
    /\ f.net # "none"
    /\ \/ NetworkFlow(f) = NewFlow(sc.DestIP, sc.SourceIP)
       \/ NetworkFlow(f) = NewFlow(sc.SourceIP, sc.DestIP)
    /\ f.tcp
    /\ f.dport = 63323
    /\ f.syn
    /\ f.ack

\* scanner.go 166-172: the frame is the SYN+ACK looked for.
IsSynAck(f, sc) ==
    /\ f.net # "none"
    /\ NetworkFlow(f) = netFlow(sc)
    /\ f.tcp
    /\ f.dport = 63323
    /\ f.syn
    /\ f.ack

\* scanner.go 155-172, 191: what ScanAddress does with what it read.  A
\* time-out continues; any other error prints a diagnostic and continues too.
SynParse(u) ==
    /\ u \in Units
    /\ Running
    /\ pc[u] = "syn_parse"
    /\ IF rerr[u] = "none" /\ IsSynAck(data[u], scanner[u])
       THEN /\ pc' = [pc EXCEPT ![u] = "banner"]
            /\ outcome' = [outcome EXCEPT ![u] = "open"]
            /\ UNCHANGED <<data, rerr>>
       ELSE /\ pc' = [pc EXCEPT ![u] = "syn_send"]
            /\ data' = [data EXCEPT ![u] = NoFrame]
            /\ rerr' = [rerr EXCEPT ![u] = "none"]
            /\ UNCHANGED outcome
    /\ UNCHANGED <<scanner, elapsed, sent, hwaddr, tmp, closes, wait, report, diag>>
    /\ UNCHANGED <<written, banner>>
    /\ UNCHANGED mainVars

\* scanner.go 173-185: dial, read one line and make the banner text of it.
\* net.Dial's error is dropped; on a failed dial conn is nil and ReadString
\* calls Read on it, which panics.
Banner(u) ==
    /\ u \in Units
    /\ Running
    /\ pc[u] = "banner"
    /\ \E dialed \in BOOLEAN :
         IF ~dialed
         THEN /\ pc' = [pc EXCEPT ![u] = "panic"]
              /\ UNCHANGED banner
         ELSE /\ \E rd \in BannerReads :
                   banner' = [banner EXCEPT ![u] = [read |-> rd, text |-> BannerText(rd)]]
              /\ pc' = [pc EXCEPT ![u] = "print"]
    /\ UNCHANGED <<scanner, elapsed, sent, hwaddr, data, rerr, tmp, closes, outcome>>
    /\ UNCHANGED <<written, wait, report, diag>>
    /\ UNCHANGED mainVars

\* scanner.go 187-189: print the report line and return nil.
PrintReport(u) ==
    /\ u \in Units
    /\ Running
    /\ pc[u] = "print"
    /\ report' = Append(report,
          [unit |-> u,
           line |-> ReportLine(scanner[u].DestIP, data[u].sport, banner[u].text)])
    /\ banner' = [banner EXCEPT ![u] = NoLine]
    /\ Return(u, "close", "reported")
    /\ UNCHANGED <<scanner, tmp, closes, written, wait, diag>>
    /\ UNCHANGED mainVars

\* scanner.go 209-211, called at main.go 134.
Close(u) ==
    /\ u \in Units
    /\ Running
    /\ pc[u] = "close"
    /\ scanner' = [scanner EXCEPT ![u].PCAPHandle = "closed"]
    /\ closes' = [closes EXCEPT ![u] = closes[u] + 1]
    /\ pc' = [pc EXCEPT ![u] = "dec_read"]
    /\ UNCHANGED <<elapsed, sent, hwaddr, data, rerr, tmp, outcome, wait, report, diag>>
    /\ UNCHANGED <<written, banner>>
    /\ UNCHANGED mainVars

\* wait-- (main.go 123, 129, 136) is a load and a store with no lock.
DecRead(u) ==
    /\ u \in Units
    /\ Running
    /\ pc[u] = "dec_read"
    /\ tmp' = [tmp EXCEPT ![u] = wait]
    /\ pc' = [pc EXCEPT ![u] = "dec_write"]
    /\ UNCHANGED <<scanner, elapsed, sent, hwaddr, data, rerr, closes, outcome, wait, report, diag>>
    /\ UNCHANGED <<written, banner>>
    /\ UNCHANGED mainVars

\* DecWrite taking two from the counter.
DecWriteTwo(u) ==
    /\ u \in Units
    /\ Running
    /\ pc[u] = "dec_write"
    /\ wait' = tmp[u] - 2
    /\ tmp' = [tmp EXCEPT ![u] = 0]
    /\ pc' = [pc EXCEPT ![u] = "done"]
    /\ UNCHANGED <<scanner, elapsed, sent, hwaddr, data, rerr, closes, outcome, report, diag>>
    /\ UNCHANGED <<written, banner>>
    /\ UNCHANGED mainVars

\* The store of wait--.
DecWrite(u) ==
    /\ u \in Units
    /\ Running
    /\ pc[u] = "dec_write"
    /\ wait' = tmp[u] - 1
    /\ tmp' = [tmp EXCEPT ![u] = 0]
    /\ pc' = [pc EXCEPT ![u] = "done"]
    /\ UNCHANGED <<scanner, elapsed, sent, hwaddr, data, rerr, closes, outcome, report, diag>>
    /\ UNCHANGED <<written, banner>>
    /\ UNCHANGED mainVars

\* A second passes while a goroutine waits in ReadPacketData.
Tick(u) ==
    /\ u \in Units
    /\ Running
    /\ pc[u] \in {"arp_read", "syn_read"}
    /\ elapsed[u] < MaxElapsed
    /\ elapsed' = [elapsed EXCEPT ![u] = elapsed[u] + 1]
    /\ UNCHANGED <<pc, scanner, sent, hwaddr, data, rerr, tmp, closes, outcome, wait, report, diag>>
    /\ UNCHANGED <<written, banner>>
    /\ UNCHANGED mainVars

(* ------------------------------------------------------- specifications *)

MainStep == ExpandArg \/ StartSpawn \/ SpawnArg \/ EnterWait \/ LeaveWait

UnitStep ==
    \/ \E u \in Slots : Create(u)
    \/ \E u \in Slots : ArpSend(u)
    \/ \E u \in Slots : ArpCheck(u)
    \/ \E u \in Slots : ArpRead(u)
    \/ \E u \in Slots : ArpParse(u)
    \/ \E u \in Slots : SynSend(u)
    \/ \E u \in Slots : SynCheck(u)
    \/ \E u \in Slots : SynRead(u)
    \/ \E u \in Slots : SynParse(u)
    \/ \E u \in Slots : Banner(u)
    \/ \E u \in Slots : PrintReport(u)
    \/ \E u \in Slots : Close(u)
    \/ \E u \in Slots : DecRead(u)
    \/ \E u \in Slots : DecWrite(u)
    \/ \E u \in Slots : Tick(u)

Next == MainStep \/ UnitStep

\* Every target routed the same way, or the first one differently.
Tables ==
    {[h \in Hosts |-> IF h = Target1 THEN r1 ELSE r2] : r1 \in Routes, r2 \in Routes}

\* The whole program on short argument lists, on a quiet wire.
Init ==
    InitMain({l \in ArgLists(MaxArgs) : Len(expandAll(l, 1, l, 0)) <= MaxUnits},
             Tables, {"quiet"})

Spec == Init /\ [][Next]_vars

\* main alone, up to its wait loop, on argument lists with wider ranges.
InitExpand ==
    InitMain({l \in ArgLists(MaxArgs) : Len(expandAll(l, 1, l, 0)) <= MaxSlots},
             {[h \in Hosts |-> "direct"]}, {"quiet"})

SpecExpand == InitExpand /\ [][MainStep]_vars

\* One goroutine scanning one target on a busy or an idle wire, main already
\* polling.
InitScanOn(wires) ==
    \E t \in {Target1, Target2} :
        /\ orig = <<StrIP(t)>>
        /\ args = orig
        /\ k = 2
        /\ i = 0
        /\ mainpc = "wait"
        /\ router \in {[h \in Hosts |-> r] : r \in Routes}
        /\ wire \in wires
        /\ wait = 1
        /\ pc = <<"create">>
        /\ scanner = <<NoScanner(t)>>
        /\ elapsed = <<0>>
        /\ sent = <<FALSE>>
        /\ hwaddr = <<"none">>
        /\ data = <<NoFrame>>
        /\ rerr = <<"none">>
        /\ tmp = <<0>>
        /\ closes = <<0>>
        /\ outcome = <<"none">>
        /\ written = <<NoneWritten>>
        /\ banner = <<NoLine>>
        /\ report = << >>
        /\ diag = {}

InitScan == InitScanOn({"busy", "idle"})

SpecScan == InitScan /\ [][UnitStep \/ LeaveWait]_vars

\* Every step of a goroutine but the passing of time.
UnitRun(u) ==
    \/ Create(u) \/ ArpSend(u) \/ ArpCheck(u) \/ ArpRead(u) \/ ArpParse(u)
    \/ SynSend(u) \/ SynCheck(u) \/ SynRead(u) \/ SynParse(u)
    \/ Banner(u) \/ PrintReport(u) \/ Close(u) \/ DecRead(u) \/ DecWrite(u)

InitFair == InitScanOn({"busy"})

\* One goroutine on a busy wire, scheduled fairly: a goroutine that can run
\* does run (the frames of the busy wire let every read return), and the
\* clock goes on whenever a goroutine waits in a read.
FairScan ==
    /\ InitFair
    /\ [][UnitStep \/ LeaveWait]_vars
    /\ \A u \in Slots : WF_vars(UnitRun(u)) /\ SF_vars(Tick(u))

\* The whole program on longer argument lists, with no route to any target:
\* every goroutine goes from create to its wait--.
InitCount ==
    InitMain({l \in ArgLists(MaxArgs) : Len(expandAll(l, 1, l, 0)) <= MaxCount},
             {[h \in Hosts |-> "no-route"]}, {"quiet"})

SpecCount ==
    InitCount /\ [][\/ MainStep
                    \/ \E u \in Slots : Create(u)
                    \/ \E u \in Slots : DecRead(u)
                    \/ \E u \in Slots : DecWrite(u)]_vars

(* ------------------------------------------------------------ properties *)

\* The goroutine's ScanAddress (or create) is over: what is left of it is
\* Close and wait--, or nothing.
ScanOver(u) == pc[u] \in {"close", "dec_read", "dec_write", "done", "panic"}

\* The goroutine has returned.
Returned(u) == pc[u] = "done"

Started(u) == pc[u] # "none"

\* The report lines the goroutine printed.
LinesOf(u) == Cardinality({j \in DOMAIN report : report[j].unit = u})

\* The goroutine saw a SYN+ACK that made its probe say Open.
SawSynAck(u) == outcome[u] \in {"open", "reported"}

\* C1: every goroutine that opened a capture handle has called its Close
\* exactly once by the time it returns, whichever way its scan ended.
C1_ClosedOnceOnReturn ==
    \A u \in Units :
        (Returned(u) /\ scanner[u].PCAPHandle # "nil") => closes[u] = 1

\* C2: once a goroutine's scan is over or the process has ended, the report
\* holds exactly one line of every goroutine that saw a qualifying SYN+ACK
\* and none of any other; no goroutine ever has two lines.
C2_OneLinePerOpenTarget ==
    \A u \in Units :
        /\ LinesOf(u) <= 1
        /\ (ScanOver(u) \/ ~Running) =>
              LinesOf(u) = (IF SawSynAck(u) THEN 1 ELSE 0)

\* The four conditions of a qualifying reply, for the goroutine's own target
\* and source address.
Qualifies(f, u) ==
    /\ f.net = "ip4"
    /\ f.src = scanner[u].DestIP
    /\ f.dst = scanner[u].SourceIP
    /\ f.tcp
    /\ f.dport = ProbeSrcPort
    /\ f.syn
    /\ f.ack

\* C3: the probe says Open on a captured frame exactly when the frame flows
\* from the target to the source address, has a TCP layer addressed to port
\* 63323 and has SYN and ACK set; nothing else ever makes it say Open.
C3_OpenIffQualifies ==
    [][\A u \in Units :
          /\ (pc[u] = "syn_parse" /\ pc'[u] # "syn_parse") =>
                ((pc'[u] = "banner") <=> (rerr[u] = "none" /\ Qualifies(data[u], u)))
          /\ (pc[u] # "banner" /\ pc'[u] = "banner") => pc[u] = "syn_parse"]_vars

\* C3: a probe that said Open, holding the reply that made it.
C3_OpenWitness ==
    \E u \in Units : pc[u] = "banner" /\ Qualifies(data[u], u)

\* The address resolve asks for: the gateway of the route, or the target.
ResolutionTarget(u) ==
    IF scanner[u].Gateway = NilIP THEN scanner[u].DestIP ELSE scanner[u].Gateway

\* C4: resolve returns on the first frame it reads that has an ARP layer sent
\* from the resolution target, with that frame's sender hardware address and
\* without another read; any other frame leaves it in its loop with nothing
\* returned.
C4_FirstReplyReturned ==
    [][\A u \in Units :
          /\ (pc[u] = "arp_parse" /\ pc'[u] # "arp_parse" /\ rerr[u] = "none") =>
                IF data[u].arp /\ data[u].spa = ResolutionTarget(u)
                THEN pc'[u] = "syn_send" /\ hwaddr'[u] = data[u].sha
                ELSE pc'[u] = "arp_check" /\ hwaddr'[u] = hwaddr[u]
          /\ (hwaddr'[u] # hwaddr[u] /\ hwaddr'[u] # "none") => pc[u] = "arp_parse"]_vars

\* C4: resolve has returned the hardware address of the gateway it asked for.
C4_ResolvedWitness ==
    \E u \in Units :
        /\ pc[u] = "syn_send"
        /\ scanner[u].Gateway = GatewayIP
        /\ hwaddr[u] = "hw-gateway"

\* Where a goroutine is while DestMACAddress runs.
InResolve(u) == pc[u] \in {"arp_check", "arp_read", "arp_parse"}

\* C5: resolve fails with the time-out error only when more than 3 seconds
\* have passed; while they have not, a time-out of a read or a frame that is
\* no reply never ends it; and once they have, it returns the time-out error
\* and no hardware address.
C5_TimeoutAtDeadlineOnly ==
    [][\A u \in Units :
          (InResolve(u) /\ ~InResolve(u)') =>
              /\ (outcome'[u] = "arp-timeout" => elapsed[u] > Deadline)
              /\ (elapsed[u] <= Deadline /\ rerr[u] # "error") =>
                    (pc'[u] = "syn_send" /\ data[u].arp
                        /\ data[u].spa = ResolutionTarget(u))
              /\ (elapsed[u] > Deadline /\ rerr[u] # "error") =>
                    (outcome'[u] = "arp-timeout" /\ pc'[u] # "syn_send")]_vars

\* C6: a goroutine's failure never ends the process while another goroutine
\* is still on its way to its own outcome.
C6_FailureStaysLocal ==
    \A u \in Units : \A v \in Units :
        (u # v /\ Started(v) /\ ~Returned(v)) => pc[u] # "panic"

\* C7: once main polls and every started goroutine has returned, main can
\* leave its wait loop, whatever the arguments were.
C7_MainLeavesWait ==
    (mainpc = "wait" /\ \A u \in Units : Started(u) => Returned(u)) => wait = 0

\* C8: when every started goroutine has returned, wait has gone down by the
\* number of goroutines that returned: no decrement is lost.
C8_NoLostCompletion ==
    (mainpc \in {"wait", "exit"} /\ \A u \in Units : Started(u) => Returned(u)) =>
        wait = Len(args) - Cardinality({u \in Units : Returned(u)})

\* An address as one number.
IPNumber(ip) == ((ip[1] * 256 + ip[2]) * 256 + ip[3]) * 256 + ip[4]

\* The address lies in the range base/ones.
InRange(base, ones, ip) ==
    IPNumber(ip) \div (2 ^ (32 - ones)) = IPNumber(base) \div (2 ^ (32 - ones))

\* How often the string must occur in the expanded list: once for each time it
\* was given as a plain argument, once for every range given that holds it.
ExpectedCount(x) ==
    IF ContainsSlash(x) THEN 0
    ELSE Cardinality({j \in DOMAIN orig : orig[j] = x})
         + Cardinality({j \in DOMAIN orig :
               /\ orig[j].kind = "cidr"
               /\ x.kind = "ip"
               /\ InRange(orig[j].ip, orig[j].ones, x.ip)})

\* The strings that may occur in an expanded list.
Strings ==
    {args[j] : j \in DOMAIN args} \cup {orig[j] : j \in DOMAIN orig}
    \cup {StrIP(<<10, 0, 0, b>>) : b \in 0..15}

\* C9: after the expansion the list holds every address of every range given
\* exactly once, no range, and every other argument as given; the targets
\* scanned for the one argument 10.0.0.0/30 are 10.0.0.0 to 10.0.0.3, each once.
C9_ExpansionExact ==
    /\ mainpc \in {"spawn", "wait"} =>
          \A x \in Strings :
              Cardinality({j \in DOMAIN args : args[j] = x}) = ExpectedCount(x)
    /\ (mainpc = "wait" /\ orig = <<StrCIDR(<<10, 0, 0, 0>>, 30)>>) =>
          \A b \in 0..255 :
              Cardinality({u \in Units :
                  Started(u) /\ scanner[u].DestIP = <<10, 0, 0, b>>})
                = (IF b \in 0..3 THEN 1 ELSE 0)

\* The texts the banner field may hold.
BannerTexts == {"SSH-2.0-OpenSSH", "SSH-2.0", "", "Unable to get banner"}

\* The lines of the documented form address:port,banner for a target.
LinesFor(ip) ==
    {IPString(ip) \o ":" \o ToString(p) \o "," \o b \o "\n" :
        p \in {ProbeSrcPort, ProbeDstPort, 2222}, b \in BannerTexts}

\* C10: every report line is the target's address, a colon, the port, a comma,
\* the banner text or "Unable to get banner", and a newline, and nothing else.
C10_ReportLineFormat ==
    \A j \in DOMAIN report : report[j].line \in LinesFor(scanner[report[j].unit].DestIP)

\* The banner a read must give: the line without its terminator when a whole
\* line came without an error, the marker otherwise.
ExpectedBanner(rd) ==
    IF ~rd.err /\ Len(rd.str) > 0 /\ rd.str[Len(rd.str)] = "\n"
    THEN Join(SubSeq(rd.str, 1, Len(rd.str) - 1))
    ELSE "Unable to get banner"

\* C11: the banner of a report line is the line read without its terminator
\* when a whole line was read without error, and "Unable to get banner" when
\* the read ended with an error, with or without bytes; the line is printed
\* with that banner and the scan returns nil, on to Close.
C11_BannerOrMarker ==
    [][\A u \in Units :
          (pc[u] = "print" /\ pc'[u] # "print") =>
              /\ banner[u].text = ExpectedBanner(banner[u].read)
              /\ report' = Append(report,
                    [unit |-> u,
                     line |-> ReportLine(scanner[u].DestIP, data[u].sport,
                                         ExpectedBanner(banner[u].read))])
              /\ pc'[u] = "close"
              /\ outcome'[u] = "reported"]_vars

\* C11: a read that failed after part of a line, and the marker made of it.
C11_PartialLineWitness ==
    \E u \in Units :
        /\ pc[u] = "print"
        /\ banner[u].read = [str |-> <<"SSH-2.0">>, err |-> TRUE]
        /\ banner[u].text = "Unable to get banner"

\* C12: in one probe the SYN is handed to SendPacket at most once, whether
\* the send succeeds or fails: no send follows an earlier one.
C12_ProbeWrittenOnce ==
    [][\A u \in Slots : SendsSyn(u) => ~written[u].syn]_vars

\* Where a goroutine is while the loop of ScanAddress runs.
InProbe(u) == pc[u] \in {"syn_send", "syn_check", "syn_read", "syn_parse"}

\* C13: a probe always comes to its end: with no qualifying frame it returns
\* once more than 3 seconds have passed, whether its SYN could be written or
\* not.
C13_ProbeReturns ==
    \A u \in Slots : (u \in Units /\ InProbe(u)) ~> (u \in Units /\ ~InProbe(u))

\* C14: a read on the capture handle returns within a bounded wait, with a
\* frame, a time-out or an error: a goroutine still in a read when its stage's
\* 3 seconds are over can return from it, and so come to its deadline test,
\* also on a wire where nothing arrives.
C14_ReadsBounded ==
    \A u \in Units :
        (Running /\ pc[u] \in {"arp_read", "syn_read"} /\ elapsed[u] > Deadline) =>
            ENABLED (ArpRead(u) \/ SynRead(u))

\* C15: in resolve and in the probe alike, a read that fails with anything but
\* a time-out ends the stage and the scan of the target: the goroutine reads
\* no further frame and prints no report line.
C15_ReadErrorAborts ==
    [][\A u \in Units :
          (pc[u] \in {"arp_parse", "syn_parse"} /\ rerr[u] = "error"
              /\ pc'[u] # pc[u]) =>
                (ScanOver(u)' /\ pc'[u] # "panic" /\ LinesOf(u)' = 0)]_vars

\* C16: a failed write of the ARP request does not end resolve: it goes on to
\* its receive loop, to end there with a matching reply or the time-out.
C16_QuerySendFailureGoesOn ==
    [][\A u \in Units :
          (pc[u] = "arp_send" /\ pc'[u] # "arp_send") => InResolve(u)']_vars

\* The ways a goroutine ends before its probe: create failed, or resolve did.
NoProbeOutcomes ==
    {"no-route", "open-fails", "arp-send-error", "arp-timeout", "arp-read-error"}

\* C17: the stages of one scan come in order: the SYN is handed to SendPacket
\* only by a goroutine that holds the hardware address resolve returned, never
\* by one whose resolve failed; the banner connection is dialed only by a
\* goroutine whose probe, with its SYN handed over, read a qualifying SYN+ACK.
C17_StagesInOrder ==
    [][\A u \in Units :
          /\ (written'[u].syn /\ ~written[u].syn) =>
                (hwaddr[u] # "none" /\ outcome[u] = "none")
          /\ (pc[u] = "banner" /\ pc'[u] # "banner") =>
                (Qualifies(data[u], u) /\ written[u].syn /\ hwaddr[u] # "none")
          /\ outcome'[u] \in NoProbeOutcomes =>
                (~written'[u].syn /\ LinesOf(u)' = 0 /\ pc'[u] # "panic")]_vars

\* C17: a scan that went through all three stages.
C17_AllStagesWitness ==
    \E u \in Units :
        /\ outcome[u] = "reported"
        /\ written[u].DstProtAddress # NilIP
        /\ written[u].syn
        /\ LinesOf(u) = 1

\* C18: a goroutine whose route lookup failed has printed that it cannot scan
\* the target and goes to its wait-- and nowhere else: it opened no capture
\* handle, handed no ARP request and no SYN to SendPacket, did not look the
\* route up again, and printed no report line.
C18_NoRouteStops ==
    \A u \in Units :
        (pc[u] \notin {"none", "create"} /\ router[scanner[u].DestIP] = "no-route") =>
            /\ outcome[u] = "no-route"
            /\ <<"Unable to create scanner", scanner[u].DestIP>> \in diag
            /\ scanner[u].PCAPHandle = "nil"
            /\ written[u] = NoneWritten
            /\ pc[u] \in {"dec_read", "dec_write", "done"}
            /\ LinesOf(u) = 0

\* C18: a goroutine without a route has recorded that it is done.
C18_NoRouteWitness ==
    \E u \in Units :
        /\ pc[u] = "done"
        /\ router[scanner[u].DestIP] = "no-route"
        /\ outcome[u] = "no-route"
        /\ wait = 0

\* C19: resolve asks for and matches the gateway of the route when the route
\* has one, and the target itself otherwise: the target address of the ARP
\* request it writes is that address, and the hardware address it returns is
\* that of the sender with the very address the request asked for.
C19_ResolvesGatewayOrTarget ==
    \A u \in Units :
        /\ written[u].DstProtAddress # NilIP =>
              written[u].DstProtAddress = ResolutionTarget(u)
        /\ hwaddr[u] # "none" =>
              /\ hwaddr[u] = HwOf(ResolutionTarget(u))
              /\ hwaddr[u] = HwOf(written[u].DstProtAddress)

\* C19: a target behind the gateway, resolved by asking for the gateway.
C19_GatewayAskedWitness ==
    \E u \in Units :
        /\ scanner[u].Gateway = GatewayIP
        /\ written[u].DstProtAddress = GatewayIP
        /\ hwaddr[u] = HwOf(GatewayIP)
        /\ pc[u] = "syn_check"

\* The started goroutines that have not stored their decrement of wait.
NotYetDecremented == {u \in Units : Started(u) /\ ~Returned(u)}

\* C20: however the loads and stores of the goroutines' decrements interleave,
\* wait is never negative and never less than the number of started
\* goroutines that have not stored their decrement; so main, which leaves its
\* loop only on wait = 0, never leaves it while a started goroutine runs.
C20_CounterCoversRunning ==
    /\ wait >= 0
    /\ mainpc \in {"spawn", "wait", "exit"} => wait >= Cardinality(NotYetDecremented)
    /\ mainpc = "exit" => NotYetDecremented = {}

\* C20: main has left its loop after three goroutines stored their decrements.
C20_LeftWitness ==
    /\ mainpc = "exit"
    /\ Cardinality({u \in Units : Returned(u)}) >= 3

====
